---- MODULE Spec2Model ----
\* A model of the project-tracker frontend, in parts that share one browser
\* (localStorage and window.location):
\*   - the resilient HTTP gateway, APIClient.request, with its retry loop, its
\*     backoff timers, its 401 side effect and its error construction (Spec,
\*     LiveSpec);
\*   - the session: AuthProvider's mount effect, login and logout, and the
\*     ProtectedRoute that reads it (AuthSpec);
\*   - the task board with its three columns, its optimistic moves and edits
\*     and their reconciliation with the backend (BoardSpec);
\*   - the error boundary (BoundarySpec), the service worker and its caches
\*     (WorkerSpec) and the deploy script (DeploySpec).
\* Strings the code inspects character by character are sequences of
\* one-character strings, so that substring tests and trimming are computed,
\* not assumed.
EXTENDS Integers, Sequences, FiniteSets, TLC

VARIABLES
    pc,            \* position of the current call: "idle", "fetching", "reading",
                   \* "waiting", "settled"
    options,       \* the caller's options object of the current call
    sent,          \* the config handed to the last fetch
    attempt,       \* the loop variable of request
    fetches,       \* number of fetch calls issued by the current call
    last,          \* what the last fetch produced: a response or a rejection
    delay,         \* the delay handed to the last setTimeout (a JS number)
    cause,         \* why that timer was set: "retry-after", "backoff" or "none"
    directed,      \* retries of this call whose delay came from a Retry-After header
    waited,        \* milliseconds between the last response and the fetch that followed it
    outcome,       \* the promise returned by request
    storageUser,   \* localStorage holds a 'user' entry
    location,      \* window.location.href
    cleared,       \* session-clear/redirect side effects performed by the current call
    calls,         \* calls of request begun so far
    previous       \* how the previous call ended

\* The session.
VARIABLES
    user,          \* AuthProvider's user state
    loading,       \* AuthProvider's loading state
    storageItem,   \* the text last written under 'user' in localStorage
    pending2fa,    \* localStorage holds a 'pending_2fa_user_id' entry
    logoutPc,      \* "idle", or "fetching" while logout awaits POST /auth/logout
    authEvent,     \* the last thing the session did
    rendered       \* what ProtectedRoute returned when it last rendered, and from what

\* The task board.
VARIABLES
    readOnly,      \* the board is configured read-only
    phase,         \* "loading", "ready" or "error"
    tasks,         \* the task collection, in board order
    revision,      \* the local revision counter of each task
    inflight,      \* persist calls issued and not yet answered
    form,          \* the add-task form
    issued,        \* every network call the board has issued, in order
    answered,      \* the persist calls answered so far
    errors,        \* error notifications raised
    boardEvent,    \* the last thing that happened on the board
    nextId         \* the id the backend assigns to the next created task

\* The error boundary.
VARIABLES
    ebState,       \* this.state of ErrorBoundary
    ebCaught,      \* the error React is still to hand to componentDidCatch
    ebView,        \* what render returned last
    ebDev,         \* import.meta.env.DEV
    ebReports      \* errors reported by componentDidCatch so far

\* The service worker.
VARIABLES
    swCache,       \* the entries of the caches
    swHandlers,    \* fetch events being answered, each at its pending promise
    swLast,        \* the last thing a fetch handler did, and for which event
    swEvents       \* fetch events so far

\* The deploy script.
VARIABLES
    dpPc,          \* the step the script is about to run
    dpLog,         \* the steps the running script has run, in order
    dpExit,        \* the exit status of the script, once it has exited
    dpEnv,         \* a file .env exists
    dpExample,     \* a file env.example exists
    dpType,        \* deploy_type
    dpRuns         \* runs of the script so far

apiVars == <<pc, options, sent, attempt, fetches, last, delay, cause, directed, waited,
             outcome, cleared, calls, previous>>

browserVars == <<storageUser, location>>

authVars == <<user, loading, storageItem, pending2fa, logoutPc, authEvent, rendered>>

boardVars == <<readOnly, phase, tasks, revision, inflight, form, issued, answered,
               errors, boardEvent, nextId>>

boundaryVars == <<ebState, ebCaught, ebView, ebDev, ebReports>>

workerVars == <<swCache, swHandlers, swLast, swEvents>>

deployVars == <<dpPc, dpLog, dpExit, dpEnv, dpExample, dpType, dpRuns>>

vars == <<apiVars, browserVars, authVars, boardVars, boundaryVars, workerVars, deployVars>>

----------------------------------------------------------------------------
\* Bounds of the model.

\* Calls of request in one behaviour.
MaxCalls == 2

\* Largest lateness of a timer, in milliseconds.
MaxLate == 1

\* Tasks the backend holds for the project when the board loads.
MaxLoaded == 2

\* Calls the board issues after its load: creates, moves, edits, removes.
MaxBoardCalls == 2

\* Errors the error boundary catches.
MaxReports == 3

\* Fetch events the service worker receives.
MaxEvents == 3

\* Runs of the deploy script.
MaxRuns == 2

----------------------------------------------------------------------------
\* Strings as sequences of characters.

\* String.prototype.includes
Includes(s, sub) ==
    \E i \in 0..(Len(s) - Len(sub)) : SubSeq(s, i + 1, i + Len(sub)) = sub

\* String.prototype.startsWith
StartsWith(s, prefix) ==
    Len(s) >= Len(prefix) /\ SubSeq(s, 1, Len(prefix)) = prefix

Digits == <<"0", "1", "2", "3", "4", "5", "6", "7", "8", "9">>

\* The value of c as a digit of parseInt: the decimal digits, then the
\* letters a to f in either case; 36 for any other character.
DigitValue(c) ==
    LET lower == Digits \o <<"a", "b", "c", "d", "e", "f">>
        upper == Digits \o <<"A", "B", "C", "D", "E", "F">>
    IN  IF \E d \in 1..16 : lower[d] = c
        THEN (CHOOSE d \in 1..16 : lower[d] = c) - 1
        ELSE IF \E d \in 1..16 : upper[d] = c
        THEN (CHOOSE d \in 1..16 : upper[d] = c) - 1
        ELSE 36

IsDigit(c, radix) == DigitValue(c) < radix

\* Template-literal conversion of a non-negative integer: ${response.status}
RECURSIVE NumberToString(_)
NumberToString(n) ==
    IF n < 10 THEN <<Digits[n + 1]>>
    ELSE NumberToString(n \div 10) \o <<Digits[(n % 10) + 1]>>

\* JS numbers that may be NaN: <<n>> is the number n, <<>> is NaN.
NaN == <<>>

Num(n) == <<n>>

\* The value of the longest prefix of s made of digits of the radix.
RECURSIVE ParseDigits(_, _, _)
ParseDigits(s, radix, acc) ==
    IF s = <<>> \/ ~IsDigit(Head(s), radix) THEN acc
    ELSE ParseDigits(Tail(s), radix, radix * acc + DigitValue(Head(s)))

\* parseInt(s), called without a radix: leading white space is skipped, a
\* sign is taken, a 0x or 0X that follows selects radix 16 and is skipped,
\* and the longest prefix of digits of the radix is the value; NaN when that
\* prefix is empty.  White space is WhiteSpace and LineTerminator of the
\* language; a character outside ASCII is written by its code point, "U+00A0".
ParseInt(s) ==
    LET white == {" ", "\t", "\n", "\r", "\f", "U+000B", "U+00A0", "U+FEFF",
                  "U+1680", "U+2000", "U+2001", "U+2002", "U+2003", "U+2004",
                  "U+2005", "U+2006", "U+2007", "U+2008", "U+2009", "U+200A",
                  "U+2028", "U+2029", "U+202F", "U+205F", "U+3000"}
        start == CHOOSE i \in 1..(Len(s) + 1) :
                    /\ \A j \in 1..(i - 1) : s[j] \in white
                    /\ i = Len(s) + 1 \/ s[i] \notin white
        t == SubSeq(s, start, Len(s))
        signed == t # <<>> /\ Head(t) \in {"+", "-"}
        sign == IF signed /\ Head(t) = "-" THEN -1 ELSE 1
        u == IF signed THEN Tail(t) ELSE t
        hex == Len(u) >= 2 /\ u[1] = "0" /\ u[2] \in {"x", "X"}
        radix == IF hex THEN 16 ELSE 10
        z == IF hex THEN SubSeq(u, 3, Len(u)) ELSE u
    IN  IF z = <<>> \/ ~IsDigit(Head(z), radix) THEN NaN
        ELSE Num(sign * ParseDigits(z, radix, 0))

\* x * 1000 on a JS number
Times1000(x) == IF x = NaN THEN NaN ELSE Num(x[1] * 1000)

\* The time a timer set with setTimeout(resolve, d) waits at least: NaN and
\* negative delays count as 0.
TimerMillis(d) == IF d = NaN THEN 0 ELSE IF d[1] < 0 THEN 0 ELSE d[1]

----------------------------------------------------------------------------
\* Literals of the source.

MsgUnauthorized == <<"U","n","a","u","t","h","o","r","i","z","e","d">>

MsgAuthFailed == <<"A","u","t","h","e","n","t","i","c","a","t","i","o","n"," ","f","a","i","l","e","d">>

MsgTooMany == <<"T","o","o"," ","m","a","n","y"," ","r","e","q","u","e","s","t","s","."," ","P","l","e","a","s","e"," ","t","r","y"," ","a","g","a","i","n"," ","l","a","t","e","r",".">>

MsgServerError == <<"S","e","r","v","e","r"," ","e","r","r","o","r","."," ","P","l","e","a","s","e"," ","t","r","y"," ","a","g","a","i","n"," ","l","a","t","e","r",".">>

MsgUnableToConnect == <<"U","n","a","b","l","e"," ","t","o"," ","c","o","n","n","e","c","t"," ","t","o"," ","t","h","e"," ","s","e","r","v","e","r","."," ","P","l","e","a","s","e"," ","c","h","e","c","k"," ","y","o","u","r"," ","c","o","n","n","e","c","t","i","o","n"," ","a","n","d"," ","t","r","y"," ","a","g","a","i","n",".">>

\* `HTTP ${response.status}: ${response.statusText}`
HttpMessage(response) ==
    <<"H","T","T","P"," ">> \o NumberToString(response.status) \o <<":"," ">>
        \o response.statusText

\* new Error(message), new TypeError(message); code is the property the
\* network error carries.
Error(message) == [name |-> "Error", message |-> message, code |-> "none"]

TypeError(message) == [name |-> "TypeError", message |-> message, code |-> "none"]

NetworkError == [name |-> "Error", message |-> MsgUnableToConnect, code |-> "NETWORK_ERROR"]

----------------------------------------------------------------------------
\* The environment: what a fetch can produce.

\* Reading .message of null
MsgReadOfNull == <<"C","a","n","n","o","t"," ","r","e","a","d"," ","p","r","o","p","e","r","t","i","e","s"," ","o","f"," ","n","u","l","l"," ","(","r","e","a","d","i","n","g"," ","'","m","e","s","s","a","g","e","'",")">>

\* What a failed fetch rejects with: the TypeError of Chromium and Firefox
\* ('Failed to fetch') and the one of WebKit ('Load failed').
FetchRejections ==
    {TypeError(<<"F","a","i","l","e","d"," ","t","o"," ","f","e","t","c","h">>),
     TypeError(<<"L","o","a","d"," ","f","a","i","l","e","d">>)}

\* Response bodies: text that is not JSON, JSON null, and JSON objects whose
\* message member is absent, empty or a text.
BodyInvalid == [kind |-> "invalid"]

JsonNull == [kind |-> "json", type |-> "null"]

JsonObject(fields) == [kind |-> "json", type |-> "object", fields |-> fields]

Bodies ==
    {BodyInvalid, JsonNull, JsonObject(<<>>), JsonObject("message" :> <<>>),
     JsonObject("message" :> <<"I","n","v","a","l","i","d"," ","t","i","t","l","e">>)}

StatusText(status) ==
    CASE status = 200 -> <<"O","K">>
      [] status = 401 -> MsgUnauthorized
      [] status = 404 -> <<"N","o","t"," ","F","o","u","n","d">>
      [] status = 429 -> <<"T","o","o"," ","M","a","n","y"," ","R","e","q","u","e","s","t","s">>
      [] status = 500 -> <<"I","n","t","e","r","n","a","l"," ","S","e","r","v","e","r"," ","E","r","r","o","r">>
      [] OTHER -> <<>>

Statuses == {200, 401, 404, 429, 500}

\* Values of a Retry-After header: delay-seconds, an HTTP-date, an empty
\* value, and values that are neither but that parseInt reads as a number:
\* in hexadecimal, with a sign, after a no-break space.
RetryAfterValues ==
    {<<"1">>, <<"3","0">>, <<>>, <<"0","x","1","0">>, <<"-","5">>, <<"U+00A0","3","0">>,
     <<"W","e","d",","," ","2","1"," ","O","c","t"," ","2","0","2","6"," ",
       "0","7",":","2","8",":","0","0"," ","G","M","T">>}

\* The Retry-After header is read on 429 alone; a 500 may carry one too.
HeadersOf(status) ==
    IF status = 429 THEN {<<>>} \cup {("Retry-After" :> v) : v \in RetryAfterValues}
    ELSE IF status = 500 THEN {<<>>, ("Retry-After" :> <<"3","0">>)}
    ELSE {<<>>}

Responses ==
    {r \in [status : Statuses, statusText : {StatusText(s) : s \in Statuses},
            headers : UNION {HeadersOf(s) : s \in Statuses}, body : Bodies] :
        /\ r.statusText = StatusText(r.status)
        /\ r.headers \in HeadersOf(r.status)}

\* The options objects callers pass: the ones get/post/put/patch/delete build,
\* and ones with headers and credentials of the caller's own.
CallerOptions ==
    {[method |-> "GET"],
     [method |-> "POST", body |-> "{}"],
     [method |-> "GET", headers |-> ("Authorization" :> "Bearer t")],
     [method |-> "PATCH", body |-> "{}", credentials |-> "omit",
      headers |-> ("Content-Type" :> "text/plain")]}

----------------------------------------------------------------------------
\* APIClient

\* A retries default that is one too large.
RetriesOffByOne == 3 + 1

\* The default of the retries parameter of request.
Retries == 3

GetAuthHeaders == ("Content-Type" :> "application/json")

\* Object spread {...a, ...b}: the members of b override those of a.
Spread(a, b) ==
    [k \in (DOMAIN a) \cup (DOMAIN b) |-> IF k \in DOMAIN b THEN b[k] ELSE a[k]]

\* options.headers, nothing to spread when the member is undefined
OptionsHeaders(opts) == IF "headers" \in DOMAIN opts THEN opts.headers ELSE <<>>

\* A config whose credentials member the caller's options override.
ConfigOptionsLast(opts) ==
    Spread(Spread([credentials |-> "include"], opts),
           [headers |-> Spread(GetAuthHeaders, OptionsHeaders(opts))])

\* The config request builds from the caller's options.
Config(opts) ==
    Spread(Spread(opts, [headers |-> Spread(GetAuthHeaders, OptionsHeaders(opts))]),
           [credentials |-> "include"])

\* Math.pow(2, attempt) * 1000
Backoff(k) == Num((2 ^ k) * 1000)

\* `retryAfter ?` for retryAfter = response.headers.get('Retry-After'): null
\* and the empty string are falsy.
HasRetryAfter(response) ==
    /\ "Retry-After" \in DOMAIN response.headers
    /\ response.headers["Retry-After"] # <<>>

\* A 429 delay that ignores the header.
RateLimitDelayNoHeader(response, k) == Backoff(k)

\* The delay of the 429 branch.
RateLimitDelay(response, k) ==
    IF HasRetryAfter(response)
    THEN Times1000(ParseInt(response.headers["Retry-After"]))
    ELSE Backoff(k)

\* response.ok
Ok(response) == response.status >= 200 /\ response.status <= 299

\* The conditions under which the loop waits and continues on a response.
RetryRateLimit(response, k, retries) == response.status = 429 /\ k < retries

\* A 5xx retry that forgets the attempt bound.
RetryServerErrorUnguarded(response, k, retries) == response.status >= 500

RetryServerError(response, k, retries) == response.status >= 500 /\ k < retries

\* Completions of a block of the loop body.
Return(value) == [kind |-> "return", value |-> value]

Throw(error) == [kind |-> "throw", error |-> error]

Continue(d, why) == [kind |-> "continue", delay |-> d, cause |-> why]

\* data.message || fallback, on parsed data; reading .message of null throws.
MessageOr(data, fallback) ==
    IF data.type = "null" THEN Throw(TypeError(MsgReadOfNull))
    ELSE IF "message" \in DOMAIN data.fields /\ data.fields["message"] # <<>>
         THEN Throw(Error(data.fields["message"]))
         ELSE Throw(Error(fallback))

\* The statements of the try block after the fetch resolved with response.
TryBlock(response, k, retries) ==
    IF response.status = 401 THEN Throw(Error(MsgUnauthorized))
    ELSE IF RetryRateLimit(response, k, retries)
    THEN Continue(RateLimitDelay(response, k),
                  IF HasRetryAfter(response) THEN "retry-after" ELSE "backoff")
    ELSE IF RetryServerError(response, k, retries)
    THEN Continue(Backoff(k), "backoff")
    ELSE IF response.body.kind = "invalid"
    THEN Throw(Error(HttpMessage(response)))
    ELSE IF ~Ok(response)
    THEN IF response.status = 401
         THEN MessageOr(response.body, MsgAuthFailed)
         ELSE IF response.status = 429 THEN Throw(Error(MsgTooMany))
         ELSE IF response.status >= 500 THEN Throw(Error(MsgServerError))
         ELSE MessageOr(response.body, HttpMessage(response))
    ELSE Return(response.body)

\* The test of the catch block that makes an error final.
IsFinal(error, k, retries) ==
    \/ k = retries
    \/ /\ Includes(error.message, <<"H","T","T","P"," ","4">>)
       /\ ~Includes(error.message, <<"4","0","1">>)
       /\ ~Includes(error.message, <<"4","2","9">>)

\* The test of the catch block for a failed fetch.
IsNetworkError(error) ==
    error.name = "TypeError" /\ Includes(error.message, <<"f","e","t","c","h">>)

\* The catch block on an error thrown in the try block.
CatchBlock(error, k, retries) ==
    IF IsNetworkError(error) THEN Throw(NetworkError)
    ELSE IF IsFinal(error, k, retries) THEN Throw(error)
    ELSE IF k < retries THEN Continue(Backoff(k), "backoff")
    ELSE Throw(error)

\* One iteration of the loop once its fetch has settled.
OnResponse(response, k, retries) ==
    LET t == TryBlock(response, k, retries)
    IN  IF t.kind = "throw" THEN CatchBlock(t.error, k, retries) ELSE t

OnRejection(error, k, retries) == CatchBlock(error, k, retries)

----------------------------------------------------------------------------
\* Values of the session and of the board, and their states before use.

\* JS null and undefined as values of the user state.
Null == [type |-> "null"]

UndefinedValue == [type |-> "undefined"]

\* A user object; role is "none" when the member is missing.
UserOf(role) == [type |-> "object", role |-> role]

\* JSON.stringify(value) as localStorage.setItem stores it: undefined is not
\* JSON, and setItem stores the text 'undefined'.
Stringify(value) ==
    IF value.type = "undefined" THEN [kind |-> "text", text |-> "undefined"]
    ELSE [kind |-> "json", value |-> value]

NoRender == [output |-> "none"]

Event(name, detail) == [name |-> name, detail |-> detail]

NoEvent == Event("none", "")

\* The provider is mounted with its initial state and nothing has happened.
AuthAtRest ==
    /\ user = Null
    /\ loading = TRUE
    /\ storageItem = Stringify(UserOf("Employee"))
    /\ pending2fa = FALSE
    /\ logoutPc = "idle"
    /\ authEvent = NoEvent
    /\ rendered = NoRender

EmptyForm ==
    [open |-> FALSE, title |-> <<>>, description |-> <<>>, status |-> "", assignee |-> 0]

\* this.state as the constructor of ErrorBoundary sets it
InitialState == [hasError |-> FALSE, error |-> Null, errorInfo |-> Null]

\* Of the error boundary, the service worker and the deploy script, those
\* named are not in use.
Dormant(boundary, worker, deploy) ==
    /\ IF boundary
       THEN /\ ebState = InitialState /\ ebCaught = Null /\ ebView = "none"
            /\ ebDev = FALSE /\ ebReports = 0
       ELSE TRUE
    /\ IF worker
       THEN /\ swCache = {} /\ swHandlers = {} /\ swLast = [kind |-> "none"]
            /\ swEvents = 0
       ELSE TRUE
    /\ IF deploy
       THEN /\ dpPc = "none" /\ dpLog = <<>> /\ dpExit = <<>> /\ dpEnv = FALSE
            /\ dpExample = FALSE /\ dpType = "none" /\ dpRuns = 0
       ELSE TRUE

NoBoardEvent == [name |-> "none"]

\* No board is shown.
BoardAtRest ==
    /\ readOnly = FALSE
    /\ phase = "loading"
    /\ tasks = <<>>
    /\ revision = <<>>
    /\ inflight = {}
    /\ form = EmptyForm
    /\ issued = <<>>
    /\ errors = 0
    /\ answered = {}
    /\ boardEvent = NoBoardEvent
    /\ nextId = 1

----------------------------------------------------------------------------
\* The state machine: calls of apiClient.request, one at a time.

NoFetch == [kind |-> "none"]

Pending == [state |-> "pending"]

Resolved(value) == [state |-> "resolved", value |-> value]

Rejected(error) == [state |-> "rejected", error |-> error]

Undefined == [kind |-> "undefined"]

\* How the body of the last fetch parsed: "none" without a response.
Parsed(l) ==
    IF l.kind # "response" THEN "none"
    ELSE IF l.response.body.kind = "invalid" THEN "invalid"
    ELSE l.response.body.type

\* What a caller keeps of a call that ended: the error it rejected with, and
\* how the body of its last response had parsed.
NoRejection == [parsed |-> "none", error |-> Error(<<>>), rejected |-> FALSE]

Rejection(l, o) ==
    IF o.state = "rejected"
    THEN [parsed |-> Parsed(l), error |-> o.error, rejected |-> TRUE]
    ELSE NoRejection

\* No call of request has been made.
ApiAtRest ==
    /\ pc = "idle"
    /\ options = <<>>
    /\ sent = <<>>
    /\ attempt = 0
    /\ fetches = 0
    /\ last = NoFetch
    /\ delay = Num(0)
    /\ cause = "none"
    /\ directed = 0
    /\ waited = 0
    /\ outcome = [state |-> "none"]
    /\ cleared = 0
    /\ calls = 0
    /\ previous = NoRejection

\* A user is logged in and looks at the dashboard.
Init ==
    /\ ApiAtRest
    /\ storageUser = TRUE
    /\ location = "/dashboard"
    /\ AuthAtRest
    /\ BoardAtRest
    /\ Dormant(TRUE, TRUE, TRUE)

\* request(endpoint, options): the config is built and the first fetch issued.
StartCall(opts) ==
    /\ pc \in {"idle", "settled"}
    /\ calls < MaxCalls
    /\ pc' = "fetching"
    /\ options' = opts
    /\ sent' = Config(opts)
    /\ attempt' = 1
    /\ fetches' = 1
    /\ last' = NoFetch
    /\ delay' = Num(0)
    /\ cause' = "none"
    /\ directed' = 0
    /\ waited' = 0
    /\ outcome' = Pending
    /\ cleared' = 0
    /\ calls' = calls + 1
    /\ previous' = Rejection(last, outcome)
    /\ UNCHANGED <<storageUser, location, authVars, boardVars,
                   boundaryVars, workerVars, deployVars>>

\* The rest of an iteration, given its completion c.
Complete(c) ==
    /\ pc' = IF c.kind = "continue" THEN "waiting" ELSE "settled"
    /\ delay' = IF c.kind = "continue" THEN c.delay ELSE Num(0)
    /\ cause' = IF c.kind = "continue" THEN c.cause ELSE "none"
    /\ directed' = IF c.kind = "continue" /\ c.cause = "retry-after"
                   THEN directed + 1 ELSE directed
    /\ outcome' = IF c.kind = "return" THEN Resolved(c.value)
                  ELSE IF c.kind = "throw" THEN Rejected(c.error)
                  ELSE outcome
    /\ waited' = 0

\* A session clear on 403 instead of 401.
ClearsSessionOnForbidden(response) == response.status = 403

\* The response on which request clears the session and redirects.
ClearsSession(response) == response.status = 401

\* The iteration reaches `await response.json()`: the response is not a 401
\* and is not retried for its status.
ReadsBody(response, k, retries) ==
    /\ response.status # 401
    /\ ~RetryRateLimit(response, k, retries)
    /\ ~RetryServerError(response, k, retries)

\* The awaited fetch resolves with a response: the statements up to the next
\* await, which is the timer of a retry or the read of the body.
FetchResolves(response) ==
    /\ pc = "fetching"
    /\ last' = [kind |-> "response", response |-> response]
    /\ IF ClearsSession(response)
       THEN /\ storageUser' = FALSE
            /\ location' = "/login"
            /\ cleared' = cleared + 1
       ELSE UNCHANGED <<storageUser, location, cleared>>
    /\ IF ReadsBody(response, attempt, Retries)
       THEN /\ pc' = "reading"
            /\ waited' = 0
            /\ UNCHANGED <<delay, cause, directed, outcome>>
       ELSE Complete(OnResponse(response, attempt, Retries))
    /\ UNCHANGED <<options, sent, attempt, fetches, calls, previous, authVars, boardVars,
                   boundaryVars, workerVars, deployVars>>

\* The awaited response.json() settles, with the parsed body or with a
\* rejection: the rest of the iteration.
JsonSettles ==
    /\ pc = "reading"
    /\ Complete(OnResponse(last.response, attempt, Retries))
    /\ UNCHANGED <<options, sent, attempt, fetches, last, calls, previous,
                   storageUser, location, cleared, authVars, boardVars,
                   boundaryVars, workerVars, deployVars>>

\* The awaited fetch rejects: no response at all.
FetchRejects(error) ==
    /\ pc = "fetching"
    /\ last' = [kind |-> "rejection", error |-> error]
    /\ Complete(OnRejection(error, attempt, Retries))
    /\ UNCHANGED <<options, sent, attempt, fetches, calls, previous,
                   storageUser, location, cleared, authVars, boardVars,
                   boundaryVars, workerVars, deployVars>>

\* The backoff timer fires and `continue` takes the loop to its next
\* iteration, or past its end, where request returns undefined.
TimerFires(late) ==
    /\ pc = "waiting"
    /\ waited' = TimerMillis(delay) + late
    /\ attempt' = attempt + 1
    /\ IF attempt + 1 <= Retries
       THEN /\ pc' = "fetching"
            /\ fetches' = fetches + 1
            /\ sent' = Config(options)
            /\ outcome' = outcome
       ELSE /\ pc' = "settled"
            /\ outcome' = Resolved(Undefined)
            /\ UNCHANGED <<fetches, sent>>
    /\ UNCHANGED <<options, last, delay, cause, directed, storageUser, location,
                   cleared, calls, previous, authVars, boardVars,
                   boundaryVars, workerVars, deployVars>>

Next ==
    \/ \E opts \in CallerOptions : StartCall(opts)
    \/ \E response \in Responses : FetchResolves(response)
    \/ JsonSettles
    \/ \E error \in FetchRejections : FetchRejects(error)
    \/ \E late \in 0..MaxLate : TimerFires(late)

Spec == Init /\ [][Next]_vars

\* Each fetch settles, each body read settles and each timer fires.
Fairness ==
    /\ WF_vars(\E response \in Responses : FetchResolves(response))
    /\ WF_vars(JsonSettles)
    /\ WF_vars(\E error \in FetchRejections : FetchRejects(error))
    /\ WF_vars(\E late \in 0..MaxLate : TimerFires(late))

\* One call of request, from the call to its settling.
NextOneCall ==
    \/ \E opts \in CallerOptions : calls = 0 /\ StartCall(opts)
    \/ \E response \in Responses : FetchResolves(response)
    \/ JsonSettles
    \/ \E error \in FetchRejections : FetchRejects(error)
    \/ \E late \in 0..MaxLate : TimerFires(late)

LiveSpec == Init /\ [][NextOneCall]_vars /\ Fairness

----------------------------------------------------------------------------
\* Properties of APIClient.request

LastStatus == last.response.status

\* The last fetch produced a response, and the iteration has gone through it
\* up to its timer or to the end of the call.
LastIsResponse == last.kind = "response" /\ pc # "reading"

\* C1: a response with status 400-499 other than 401 and 429 ends the call:
\* whatever its body, the call is rejected at once and no further fetch or
\* timer follows.
C1_ClientErrorIsTerminal ==
    (LastIsResponse /\ LastStatus >= 400 /\ LastStatus <= 499
        /\ LastStatus # 401 /\ LastStatus # 429)
    => (pc = "settled" /\ outcome.state = "rejected")

\* C2: a 401 ends the call at once, and the call performs the session-clear
\* and redirect exactly once.
C2_UnauthorizedOneShot ==
    /\ (LastIsResponse /\ LastStatus = 401)
       => (pc = "settled" /\ outcome.state = "rejected" /\ cleared = 1
           /\ ~storageUser /\ location = "/login")
    /\ cleared <= 1

\* C3: a fetch that rejects is retried like a 5xx: with attempts remaining the
\* call waits 1000 * 2^attempt ms and fetches again; the call rejects only when
\* the third fetch has failed, and then with the connectivity failure.
C3_NetworkFailureRetried ==
    last.kind = "rejection"
    => /\ pc = "waiting" => (delay = <<1000 * (2 ^ attempt)>> /\ attempt < 3)
       /\ pc = "settled" => (fetches = 3 /\ outcome = Rejected(NetworkError))

\* C4: a call issues at most 3 fetches, and once each fetch settles, the body
\* of each response read is delivered and each timer fires, the call settles.
C4_BoundedAndSettles ==
    /\ [](fetches <= 3)
    /\ [](pc \in {"fetching", "reading", "waiting"} => <>(pc = "settled"))

C4_Witness == pc = "settled" /\ fetches = 3 /\ outcome.state = "rejected"

LastIsParsedSuccess ==
    /\ LastIsResponse
    /\ LastStatus >= 200 /\ LastStatus <= 299
    /\ last.response.body.kind = "json"

\* The errors that report what the last fetch produced.
C5_FailuresOf(l) ==
    IF l.kind = "rejection" THEN {NetworkError, l.error}
    ELSE LET r == l.response
             http == [name |-> "Error", code |-> "none",
                      message |-> <<"H","T","T","P"," ">> \o NumberToString(r.status)
                                      \o <<":"," ">> \o r.statusText]
         IN  IF r.status = 401 THEN {[http EXCEPT !.message = MsgUnauthorized]}
             ELSE IF r.body.kind = "invalid" THEN {http}
             ELSE IF r.status = 429 THEN {[http EXCEPT !.message = MsgTooMany]}
             ELSE IF r.status >= 500 THEN {[http EXCEPT !.message = MsgServerError]}
             ELSE IF r.body.type = "null" THEN {TypeError(MsgReadOfNull)}
             ELSE IF \E m \in DOMAIN r.body.fields : r.body.fields[m] # <<>>
             THEN {[http EXCEPT !.message = r.body.fields["message"]]}
             ELSE {http}

\* C5: a call resolves only with the parsed body of a 2xx response, never with
\* undefined; a call whose third attempt failed rejects with an error that
\* reports that attempt.
C5_NoFailureSwallowed ==
    pc = "settled"
    => /\ outcome.state \in {"resolved", "rejected"}
       /\ outcome.state = "resolved"
          => (LastIsParsedSuccess /\ outcome.value = last.response.body)
       /\ (fetches = 3 /\ ~LastIsParsedSuccess)
          => (outcome.state = "rejected" /\ outcome.error \in C5_FailuresOf(last))

C5_Witness ==
    /\ pc = "settled" /\ fetches = 3 /\ outcome.state = "rejected"
    /\ LastIsResponse /\ LastStatus = 500

\* The delay-seconds values a Retry-After header carries, with their value.
DelaySeconds == (<<"1">> :> 1) @@ (<<"3","0">> :> 30)

LastRetryAfter ==
    IF LastIsResponse /\ LastStatus = 429 /\ "Retry-After" \in DOMAIN last.response.headers
    THEN last.response.headers["Retry-After"]
    ELSE <<>>

\* The value is an HTTP-date, the other form of Retry-After: the duration it
\* names is the time from now to that date.
IsHttpDate(v) == Len(v) = 29 /\ SubSeq(v, 27, 29) = <<"G","M","T">>

\* C6: the wait after failed attempt k (k = 1, 2) is the duration Retry-After
\* names when the response was a 429 carrying one: the seconds of a
\* delay-seconds value, some duration, a number that is not negative, for an
\* HTTP-date; and it is 1000 * 2^k ms in every other retried case: a 429
\* without the header or with a value that names no duration, a 5xx, a
\* retried exception.
C6_RetryDelayRule ==
    pc = "waiting"
    => /\ attempt \in {1, 2}
       /\ LastRetryAfter \in DOMAIN DelaySeconds
          => (delay = <<1000 * DelaySeconds[LastRetryAfter]>> /\ cause = "retry-after")
       /\ IsHttpDate(LastRetryAfter)
          => (delay # NaN /\ delay[1] >= 0 /\ cause = "retry-after")
       /\ (LastRetryAfter \notin DOMAIN DelaySeconds /\ ~IsHttpDate(LastRetryAfter))
          => delay = <<1000 * (2 ^ attempt)>>

\* The fetch after a 429 with Retry-After: n is issued no sooner than n
\* seconds after that response.
NoSoonerThanRetryAfter ==
    (pc = "fetching" /\ attempt > 1 /\ LastRetryAfter \in DOMAIN DelaySeconds)
    => waited >= 1000 * DelaySeconds[LastRetryAfter]

\* The call waits on the backoff of a 5xx response or of a failed fetch.
BackingOffAfterFailure ==
    /\ pc = "waiting" /\ cause = "backoff"
    /\ \/ last.kind = "rejection"
       \/ LastIsResponse /\ LastStatus >= 500

\* C7 as stated: a retry directed by Retry-After waits at least that long and
\* does not count in the backoff schedule, so that a later backoff of a 5xx or
\* a failure has the exponent it would have had without that retry.
C7_RetryAfterOffSchedule ==
    /\ NoSoonerThanRetryAfter
    /\ BackingOffAfterFailure => delay = <<1000 * (2 ^ (attempt - directed))>>

\* C7 amended: a retry directed by Retry-After waits at least that long, and
\* it uses up one of the attempts like any other: the exponent of a later
\* backoff is the number of fetches the call has made, directed ones included.
C7_RetryAfterSharesSchedule ==
    /\ NoSoonerThanRetryAfter
    /\ BackingOffAfterFailure
       => (delay = <<1000 * (2 ^ fetches)>> /\ fetches = attempt)

C7_Witness ==
    /\ pc = "waiting" /\ cause = "backoff" /\ directed = 1
    /\ LastIsResponse /\ LastStatus = 500 /\ delay = <<4000>>

\* C8: a body that is not JSON, on a response whose status is not retryable
\* (not 5xx, not 429; 401 has its own rule), ends the call at once.
C8_MalformedBodyIsTerminal ==
    (LastIsResponse /\ last.response.body.kind = "invalid"
        /\ LastStatus < 500 /\ LastStatus # 429 /\ LastStatus # 401)
    => (pc = "settled" /\ outcome.state = "rejected")

\* C9: of two rejected calls, one ended by a response with an unparsable body
\* and one by a response with a parsed JSON error envelope, the errors differ.
C9_MalformedDistinguishable ==
    (/\ pc = "settled" /\ outcome.state = "rejected" /\ previous.rejected
     /\ previous.parsed = "invalid" /\ Parsed(last) = "object")
    => previous.error # outcome.error

\* C10 as stated: every fetch carries credentials 'include' and no
\* Authorization header.
C10_NoAuthorizationHeader ==
    fetches >= 1
    => (sent.credentials = "include" /\ "Authorization" \notin DOMAIN sent.headers)

\* C10 amended: every fetch carries credentials 'include', whatever the
\* options say, and an Authorization header only when the caller's own
\* options.headers holds one.
C10_CookieCredentials ==
    fetches >= 1
    => /\ sent.credentials = "include"
       /\ "Authorization" \in DOMAIN sent.headers
          <=> ("headers" \in DOMAIN options /\ "Authorization" \in DOMAIN options.headers)

C10_Witness ==
    /\ fetches >= 2 /\ "credentials" \in DOMAIN options
    /\ options.credentials = "omit" /\ sent.credentials = "include"

----------------------------------------------------------------------------
\* The session: AuthProvider and ProtectedRoute.

\* role values of a user object; "none" is a missing role member.
Roles == {"Manager", "Admin", "Employee", "none"}

Users == {UserOf(r) : r \in Roles}

\* !value is false
Truthy(value) == value.type = "object"

\* What localStorage may hold under 'user' when the app starts: users that
\* login stored, the texts 'null' and 'undefined', the empty text, and text
\* that is not JSON.
StorageItems ==
    {Stringify(v) : v \in Users \cup {Null, UndefinedValue}}
        \cup {[kind |-> "text", text |-> ""], [kind |-> "text", text |-> "{bad"]}

\* A restore that parses whatever is stored.
WorthParsingAlways(item) == TRUE

\* `storedUser && storedUser !== 'undefined'` for a present item
WorthParsing(item) ==
    ~(item.kind = "text" /\ item.text \in {"", "undefined"})

\* JSON.parse(storedUser) returns a value
Parses(item) == item.kind = "json"

\* The results of `await authAPI.login(credentials)`.
LoginResults ==
    {[kind |-> "2fa"], [kind |-> "throws"]}
        \cup {[kind |-> "user", user |-> u] : u \in Users \cup {UndefinedValue}}

\* How the POST /auth/logout fetch settles.
LogoutResults == {"ok", "server-error", "rejects"}

RouteProps == [requireAdmin : BOOLEAN, requireManager : BOOLEAN]

\* A route that asks for a manager by the new prop alone.
RequiresManagerAccessNewPropOnly(requireAdmin, requireManager) == requireManager

\* requiresManagerAccess
RequiresManagerAccess(requireAdmin, requireManager) == requireManager \/ requireAdmin

\* A route that looks at the user before it looks at loading.
ProtectedRouteUserFirst(u, l, requireAdmin, requireManager) ==
    IF ~Truthy(u) THEN "login"
    ELSE IF l THEN "loading"
    ELSE IF RequiresManagerAccess(requireAdmin, requireManager)
            /\ u.role # "Manager" /\ u.role # "Admin"
    THEN "dashboard"
    ELSE "children"

\* What ProtectedRoute returns: the placeholder ("loading"), <Navigate> to
\* /login ("login") or to /dashboard ("dashboard"), or its children.
ProtectedRoute(u, l, requireAdmin, requireManager) ==
    IF l THEN "loading"
    ELSE IF ~Truthy(u) THEN "login"
    ELSE IF RequiresManagerAccess(requireAdmin, requireManager)
            /\ u.role # "Manager" /\ u.role # "Admin"
    THEN "dashboard"
    ELSE "children"

\* A logout that clears the session in its try block.
LogoutClearsAfterFetch(result) == result # "rejects"

\* The finally block of logout runs however the fetch settled.
LogoutClears(result) == TRUE

AuthInit ==
    /\ ApiAtRest
    /\ BoardAtRest
    /\ Dormant(TRUE, TRUE, TRUE)
    /\ user = Null
    /\ loading = TRUE
    /\ storageUser \in BOOLEAN
    /\ storageItem \in StorageItems
    /\ ~storageUser => storageItem = Stringify(Null)
    /\ location \in {"/dashboard", "/manager"}
    /\ pending2fa = FALSE
    /\ logoutPc = "idle"
    /\ authEvent = NoEvent
    /\ rendered = NoRender

\* The effect AuthProvider runs once on mount.
Mount ==
    /\ authEvent = NoEvent
    /\ IF storageUser /\ WorthParsing(storageItem)
       THEN IF Parses(storageItem)
            THEN user' = storageItem.value /\ UNCHANGED storageUser
            ELSE storageUser' = FALSE /\ UNCHANGED user
       ELSE UNCHANGED <<user, storageUser>>
    /\ loading' = FALSE
    /\ authEvent' = Event("mount", "")
    /\ UNCHANGED <<storageItem, pending2fa, logoutPc, rendered, location,
                   apiVars, boardVars,
                   boundaryVars, workerVars, deployVars>>

\* A login that stores the user member of the response before it looks at
\* two_factor_enabled.
LoginStoresFirst(data) ==
    /\ authEvent # NoEvent
    /\ authEvent' = Event("login", data.kind)
    /\ IF data.kind = "throws"
       THEN UNCHANGED <<storageUser, storageItem, user, pending2fa>>
       ELSE /\ storageUser' = TRUE
            /\ storageItem' = Stringify(IF data.kind = "user" THEN data.user
                                        ELSE UndefinedValue)
            /\ user' = IF data.kind = "user" THEN data.user ELSE UndefinedValue
            /\ pending2fa' = (pending2fa \/ data.kind = "2fa")
    /\ UNCHANGED <<loading, logoutPc, rendered, location, apiVars, boardVars,
                   boundaryVars, workerVars, deployVars>>

\* login(credentials), from the moment authAPI.login settles with data.
Login(data) ==
    /\ authEvent # NoEvent
    /\ authEvent' = Event("login", data.kind)
    /\ IF data.kind = "2fa"
       THEN pending2fa' = TRUE /\ UNCHANGED <<storageUser, storageItem, user>>
       ELSE IF data.kind = "user"
       THEN /\ storageUser' = TRUE
            /\ storageItem' = Stringify(data.user)
            /\ user' = data.user
            /\ UNCHANGED pending2fa
       ELSE UNCHANGED <<storageUser, storageItem, user, pending2fa>>
    /\ UNCHANGED <<loading, logoutPc, rendered, location, apiVars, boardVars,
                   boundaryVars, workerVars, deployVars>>

\* logout(): the POST /auth/logout is issued and awaited.
LogoutStart ==
    /\ authEvent # NoEvent
    /\ logoutPc = "idle"
    /\ logoutPc' = "fetching"
    /\ authEvent' = Event("logout-start", "")
    /\ UNCHANGED <<user, loading, storageItem, pending2fa, rendered, browserVars,
                   apiVars, boardVars,
                   boundaryVars, workerVars, deployVars>>

\* The logout fetch settles, and the catch and finally blocks run.
LogoutSettles(result) ==
    /\ logoutPc = "fetching"
    /\ logoutPc' = "idle"
    /\ authEvent' = Event("logout", result)
    /\ IF LogoutClears(result)
       THEN storageUser' = FALSE /\ user' = Null /\ location' = "/login"
       ELSE UNCHANGED <<storageUser, user, location>>
    /\ UNCHANGED <<loading, storageItem, pending2fa, rendered, apiVars, boardVars,
                   boundaryVars, workerVars, deployVars>>

\* A ProtectedRoute with the given props renders; a <Navigate> it returns
\* takes the browser to its target.
Render(props) ==
    LET out == ProtectedRoute(user, loading, props.requireAdmin, props.requireManager)
    IN  /\ rendered' = [route |-> props, loading |-> loading, user |-> user,
                        output |-> out]
        /\ location' = IF out = "login" THEN "/login"
                       ELSE IF out = "dashboard" THEN "/dashboard"
                       ELSE location
        /\ UNCHANGED <<user, loading, storageItem, pending2fa, logoutPc, authEvent,
                       storageUser, apiVars, boardVars,
                   boundaryVars, workerVars, deployVars>>

\* A call of apiClient made by the mounted app receives a 401: request
\* removes 'user' from localStorage and sets the location; the provider's
\* state is not within its reach.
Unauthorized ==
    /\ authEvent # NoEvent
    /\ storageUser' = FALSE
    /\ location' = "/login"
    /\ authEvent' = Event("unauthorized", "")
    /\ UNCHANGED <<user, loading, storageItem, pending2fa, logoutPc, rendered,
                   apiVars, boardVars,
                   boundaryVars, workerVars, deployVars>>

\* setUser(value), which the context value hands to every consumer of
\* useAuth: the user state is set and nothing else is touched.
SetUser(value) ==
    /\ authEvent # NoEvent
    /\ user' = value
    /\ authEvent' = Event("setUser", value.type)
    /\ UNCHANGED <<loading, storageItem, pending2fa, logoutPc, rendered, browserVars,
                   apiVars, boardVars, boundaryVars, workerVars, deployVars>>

\* What DashboardRouter returns for a user.
DashboardRouter(u) ==
    IF ~Truthy(u) THEN "login"
    ELSE IF u.role = "Manager" THEN "ManagerDashboard"
    ELSE "EmployeeDashboard"

\* isManager() of the context: user?.role === 'Manager'
IsManager(u) == u.type = "object" /\ u.role = "Manager"

AuthNext ==
    \/ Mount
    \/ \E data \in LoginResults : Login(data)
    \/ LogoutStart
    \/ \E result \in LogoutResults : LogoutSettles(result)
    \/ \E props \in RouteProps : Render(props)
    \/ Unauthorized
    \/ \E value \in Users \cup {Null} : SetUser(value)

AuthSpec == AuthInit /\ [][AuthNext]_vars

----------------------------------------------------------------------------
\* Properties of the session

HasRendered == rendered.output # "none"

\* C17: ProtectedRoute never returns its children while the provider is
\* loading or the user is null: it returns the placeholder while loading and
\* the redirect to /login when loaded without a user, whatever its props.
C17_NoChildrenWithoutUser ==
    HasRendered
    => /\ rendered.loading => rendered.output = "loading"
       /\ (~rendered.loading /\ rendered.user.type # "object")
          => rendered.output = "login"
       /\ rendered.output = "children"
          => (~rendered.loading /\ rendered.user.type = "object")

C17_Witness ==
    /\ HasRendered /\ rendered.loading /\ rendered.user = Null
    /\ rendered.route.requireAdmin /\ rendered.output = "loading"

ManagerOnly(props) == props.requireManager \/ props.requireAdmin

\* C18: a manager-only route (requireManager or the legacy requireAdmin)
\* returns its children only for a logged-in user whose role is 'Manager' or
\* 'Admin'; any other logged-in user gets the redirect to /dashboard.
C18_ManagerOnlyRoute ==
    (HasRendered /\ ManagerOnly(rendered.route))
    => /\ rendered.output = "children"
          => (rendered.user.type = "object" /\ rendered.user.role \in {"Manager", "Admin"})
       /\ (~rendered.loading /\ rendered.user.type = "object"
              /\ rendered.user.role \notin {"Manager", "Admin"})
          => rendered.output = "dashboard"

C18_Witness ==
    /\ HasRendered /\ rendered.route.requireAdmin /\ ~rendered.route.requireManager
    /\ rendered.user = UserOf("Employee") /\ rendered.output = "dashboard"

\* C19: when logout has ended, however its fetch settled, localStorage holds
\* no 'user', the user state is null and the browser is at /login.
C19_LogoutClearsSession ==
    authEvent.name = "logout"
    => (~storageUser /\ user = Null /\ location = "/login")

C19_Witness ==
    /\ authEvent = Event("logout", "rejects") /\ ~storageUser /\ user = Null
    /\ storageItem = Stringify(UserOf("Manager"))

\* C20: a 401 response to a call of request removes 'user' from localStorage
\* and sets the location to /login, and a call that rejects as unauthorized
\* has done both before.
C20_UnauthorizedClearsSession ==
    /\ (LastIsResponse /\ LastStatus = 401)
       => (~storageUser /\ location = "/login" /\ cleared >= 1)
    /\ (pc = "settled" /\ outcome = Rejected(Error(MsgUnauthorized)))
       => (~storageUser /\ location = "/login")

C20_Witness ==
    /\ pc = "settled" /\ outcome = Rejected(Error(MsgUnauthorized))
    /\ ~storageUser /\ location = "/login" /\ fetches = 3

----------------------------------------------------------------------------
\* The task board.  The component's source is not part of the sources at
\* hand (its test suite is); the board is modelled from its specification.

Columns == {"To Do", "In Progress", "Done"}

ProjectId == 1

\* String.prototype.trim on the titles of the model
RECURSIVE TrimLeft(_)
TrimLeft(s) == IF s # <<>> /\ Head(s) = " " THEN TrimLeft(Tail(s)) ELSE s

RECURSIVE TrimRight(_)
TrimRight(s) ==
    IF s # <<>> /\ s[Len(s)] = " " THEN TrimRight(SubSeq(s, 1, Len(s) - 1)) ELSE s

Trim(s) == TrimRight(TrimLeft(s))

\* A title check that does not trim.
TitleValidUntrimmed(title) == title # <<>>

\* create's constraint: the title is non-empty after trimming.
TitleValid(title) == Trim(title) # <<>>

Task(id, status, title, synced) ==
    [id |-> id, status |-> status, title |-> title, synced |-> synced]

Ids(ts) == {ts[i].id : i \in DOMAIN ts}

TaskOf(ts, id) == ts[CHOOSE i \in DOMAIN ts : ts[i].id = id]

\* The tasks of a column, in board order: membership is task.status.
Column(ts, c) == SelectSeq(ts, LAMBDA t : t.status = c)

\* What the board shows.
Board(ts) == [c \in Columns |-> Column(ts, c)]

\* A removal that removes nothing.
WithoutNothing(ts, id) == ts

\* ts without the task of that id
Without(ts, id) == SelectSeq(ts, LAMBDA t : t.id # id)

\* The positions in ts of the tasks of column c.
Positions(ts, c) == SelectSeq([i \in DOMAIN ts |-> i], LAMBDA i : ts[i].status = c)

\* The 0-based index of task id within its column.
ColumnIndex(ts, id) ==
    LET t == TaskOf(ts, id)
    IN  Cardinality({i \in DOMAIN ts : ts[i].status = t.status
                                       /\ i < (CHOOSE j \in DOMAIN ts : ts[j].id = id)})

\* An insertion that ignores the index.
InsertAtEnd(ts, t, k) == Append(ts, t)

\* ts with task t inserted at index k of the column of its status, the tasks
\* from k on shifted down by one; at the end of the column when k is past it.
InsertAt(ts, t, k) ==
    LET at == Positions(ts, t.status)
        p == IF k < Len(at) THEN at[k + 1] ELSE Len(ts) + 1
    IN  SubSeq(ts, 1, p - 1) \o <<t>> \o SubSeq(ts, p, Len(ts))

\* ts with the task of that id replaced in place.
Replace(ts, t) == [i \in DOMAIN ts |-> IF ts[i].id = t.id THEN t ELSE ts[i]]

TitleA == <<"a">>

TitleB == <<"b">>

\* The task lists the backend may hold for the project: ids 1..n, any statuses.
Fetched ==
    UNION {{[i \in 1..n |-> Task(i, st[i], TitleA, TRUE)] : st \in [1..n -> Columns]} :
              n \in 0..MaxLoaded}

\* What a user may type and choose in the add-task form.
FormEntries ==
    {[open |-> TRUE, title |-> <<" ">>, description |-> <<"d">>, status |-> "Done",
      assignee |-> 1],
     [open |-> TRUE, title |-> <<" ", "a">>, description |-> <<>>, status |-> "",
      assignee |-> 0],
     [open |-> TRUE, title |-> <<"a", " ">>, description |-> <<"d">>, status |-> "Done",
      assignee |-> 1]}

\* A payload that passes the form's status on as it is.
CreatePayloadNoDefault(f) ==
    LET base == [title |-> f.title, description |-> f.description,
                 project_id |-> ProjectId, status |-> f.status]
    IN  IF f.assignee = 0 THEN base ELSE base @@ [assignee_id |-> f.assignee]

\* The body of POST /tasks for the form f.
CreatePayload(f) ==
    LET base == [title |-> f.title, description |-> f.description,
                 project_id |-> ProjectId,
                 status |-> IF f.status = "" THEN "To Do" ELSE f.status]
    IN  IF f.assignee = 0 THEN base ELSE base @@ [assignee_id |-> f.assignee]

\* Controls that are offered whatever the configuration.
MutationOfferedAlways(ro) == TRUE

\* The entry points of create, move, remove and edit (the add button, the
\* drag handle, the delete and edit controls) exist unless read-only.
MutationOffered(ro) == ~ro

\* A response that is applied whatever its revision.
IsCurrentAlways(req) == TRUE

\* The response to req belongs to the latest revision of its task.
IsCurrent(req) == req.rev = revision[req.id]

BoardEvent(name, req) == [name |-> name, req |-> req]

\* The board is mounted and its load call issued.
BoardInit ==
    /\ ApiAtRest
    /\ Dormant(TRUE, TRUE, TRUE)
    /\ storageUser = TRUE
    /\ location = "/dashboard"
    /\ AuthAtRest
    /\ readOnly \in BOOLEAN
    /\ phase = "loading"
    /\ tasks = <<>>
    /\ revision = [i \in 1..(MaxLoaded + MaxBoardCalls) |-> 0]
    /\ inflight = {}
    /\ form = EmptyForm
    /\ issued = <<[method |-> "GET", path |-> "/projects/{id}/tasks", id |-> ProjectId]>>
    /\ answered = {}
    /\ errors = 0
    /\ boardEvent = NoBoardEvent
    /\ nextId = MaxLoaded + 1

MayIssue == phase = "ready" /\ Len(issued) <= MaxBoardCalls

\* Requests of the other tasks and kinds are no longer alone with the board.
Disturb(reqs) == {[r EXCEPT !.clean = FALSE] : r \in reqs}

\* The board leaves the gateway, the browser and the session alone.
Elsewhere ==
    UNCHANGED <<apiVars, browserVars, authVars, boundaryVars, workerVars, deployVars>>

\* load: the fetch succeeds with the project's tasks.
LoadSucceeds(list) ==
    /\ phase = "loading"
    /\ phase' = "ready"
    /\ tasks' = list
    /\ boardEvent' = BoardEvent("loaded", <<>>)
    /\ UNCHANGED <<readOnly, revision, inflight, form, issued, answered, errors, nextId>>
    /\ Elsewhere

\* load: the fetch fails for good; the board stays empty.
LoadFails ==
    /\ phase = "loading"
    /\ phase' = "error"
    /\ errors' = errors + 1
    /\ boardEvent' = BoardEvent("load-failed", <<>>)
    /\ UNCHANGED <<readOnly, tasks, revision, inflight, form, issued, answered, nextId>>
    /\ Elsewhere

\* The add button is pressed.
OpenForm ==
    /\ phase = "ready" /\ MutationOffered(readOnly) /\ ~form.open
    /\ form' = [EmptyForm EXCEPT !.open = TRUE]
    /\ boardEvent' = BoardEvent("form-opened", <<>>)
    /\ UNCHANGED <<readOnly, phase, tasks, revision, inflight, issued, answered, errors,
                   nextId>>
    /\ Elsewhere

\* The user fills the form in.
FillForm(entry) ==
    /\ form.open /\ form = [EmptyForm EXCEPT !.open = TRUE]
    /\ form' = entry
    /\ boardEvent' = BoardEvent("form-filled", <<>>)
    /\ UNCHANGED <<readOnly, phase, tasks, revision, inflight, issued, answered, errors,
                   nextId>>
    /\ Elsewhere

\* create: the form is submitted.
Submit ==
    /\ form.open /\ MayIssue
    /\ IF TitleValid(form.title)
       THEN LET req == [kind |-> "create", id |-> 0, rev |-> Len(issued), clean |-> TRUE,
                        body |-> CreatePayload(form)]
            IN  /\ inflight' = inflight \cup {req}
                /\ issued' = Append(issued, [method |-> "POST", path |-> "/tasks",
                                             id |-> 0, body |-> req.body])
                /\ boardEvent' = BoardEvent("submitted", req)
       ELSE /\ boardEvent' = BoardEvent("invalid-title", <<>>)
            /\ UNCHANGED <<inflight, issued>>
    /\ UNCHANGED <<readOnly, phase, tasks, revision, form, answered, errors, nextId>>
    /\ Elsewhere

\* create: the backend answers with the task it created.
CreateSucceeds(req) ==
    /\ req \in inflight /\ req.kind = "create"
    /\ tasks' = Append(tasks, Task(nextId, req.body.status, req.body.title, TRUE))
    /\ nextId' = nextId + 1
    /\ form' = EmptyForm
    /\ inflight' = Disturb(inflight \ {req})
    /\ answered' = answered \cup {[id |-> 0, rev |-> req.rev, ok |-> TRUE]}
    /\ boardEvent' = BoardEvent("created", req)
    /\ UNCHANGED <<readOnly, phase, revision, issued, errors>>
    /\ Elsewhere

\* create: the call fails for good; the form keeps what was entered.
CreateFails(req) ==
    /\ req \in inflight /\ req.kind = "create"
    /\ inflight' = inflight \ {req}
    /\ errors' = errors + 1
    /\ answered' = answered \cup {[id |-> 0, rev |-> req.rev, ok |-> FALSE]}
    /\ boardEvent' = BoardEvent("create-failed", req)
    /\ UNCHANGED <<readOnly, phase, tasks, revision, form, issued, nextId>>
    /\ Elsewhere

\* The optimistic part of move, edit and remove on task id: the board
\* becomes ts, the revision of the task is raised, the persist call goes out.
Mutate(kind, id, ts, method, change) ==
    LET req == [kind |-> kind, id |-> id, rev |-> revision[id] + 1, clean |-> TRUE,
                before |-> TaskOf(tasks, id), index |-> ColumnIndex(tasks, id),
                snapshot |-> Board(tasks), change |-> change]
    IN  /\ tasks' = ts
        /\ revision' = [revision EXCEPT ![id] = @ + 1]
        /\ inflight' = Disturb(inflight) \cup {req}
        /\ issued' = Append(issued, [method |-> method, path |-> "/tasks/{id}",
                                     id |-> id, body |-> change])
        /\ boardEvent' = BoardEvent(kind, req)
        /\ UNCHANGED <<readOnly, phase, form, answered, errors, nextId>>
        /\ Elsewhere
    /\ Elsewhere

\* move: the card of task id is dropped at index k of column target.
Move(id, target, k) ==
    /\ MayIssue /\ MutationOffered(readOnly)
    /\ id \in Ids(tasks)
    /\ k <= Len(Column(Without(tasks, id), target))
    /\ <<target, k>> # <<TaskOf(tasks, id).status, ColumnIndex(tasks, id)>>
    /\ Mutate("move", id,
              InsertAt(Without(tasks, id),
                       [TaskOf(tasks, id) EXCEPT !.status = target, !.synced = FALSE], k),
              "PATCH", [status |-> target])

\* edit: the title of task id is changed.
Edit(id, title) ==
    /\ MayIssue /\ MutationOffered(readOnly)
    /\ id \in Ids(tasks)
    /\ TaskOf(tasks, id).title # title
    /\ Mutate("edit", id,
              Replace(tasks, [TaskOf(tasks, id) EXCEPT !.title = title, !.synced = FALSE]),
              "PATCH", [title |-> title])

\* remove: the delete control of task id is used and confirmed.
Remove(id) ==
    /\ MayIssue /\ MutationOffered(readOnly)
    /\ id \in Ids(tasks)
    /\ Mutate("remove", id, Without(tasks, id), "DELETE", <<>>)

\* The record the backend answers a move or an edit with.
ServerRecord(req) ==
    [req.before EXCEPT
        !.status = IF req.kind = "move" THEN req.change.status ELSE @,
        !.title = IF req.kind = "edit" THEN req.change.title ELSE @,
        !.synced = TRUE]

\* The persist call of a move, edit or remove succeeds: the backend's record
\* replaces the optimistic one, unless the response is stale.
Commit(req) ==
    /\ req \in inflight /\ req.kind \in {"move", "edit", "remove"}
    /\ answered' = answered \cup {[id |-> req.id, rev |-> req.rev, ok |-> TRUE]}
    /\ IF IsCurrent(req)
       THEN /\ tasks' = IF req.kind = "remove" THEN Without(tasks, req.id)
                        ELSE Replace(tasks, ServerRecord(req))
            /\ inflight' = Disturb(inflight \ {req})
            /\ boardEvent' = BoardEvent("committed", req)
       ELSE /\ tasks' = tasks
            /\ inflight' = inflight \ {req}
            /\ boardEvent' = BoardEvent("stale", req)
    /\ UNCHANGED <<readOnly, phase, revision, form, issued, errors, nextId>>
    /\ Elsewhere

\* The persist call fails for good: the task goes back to where and what it
\* was before the mutation, unless the response is stale.
Rollback(req) ==
    /\ req \in inflight /\ req.kind \in {"move", "edit", "remove"}
    /\ answered' = answered \cup {[id |-> req.id, rev |-> req.rev, ok |-> FALSE]}
    /\ errors' = errors + 1
    /\ IF IsCurrent(req)
       THEN /\ tasks' = IF req.kind = "edit" THEN Replace(tasks, req.before)
                        ELSE InsertAt(Without(tasks, req.id), req.before, req.index)
            /\ inflight' = Disturb(inflight \ {req})
            /\ boardEvent' = BoardEvent("rolled-back", req)
       ELSE /\ tasks' = tasks
            /\ inflight' = inflight \ {req}
            /\ boardEvent' = BoardEvent("stale", req)
    /\ UNCHANGED <<readOnly, phase, revision, form, issued, nextId>>
    /\ Elsewhere

BoardNext ==
    \/ \E list \in Fetched : LoadSucceeds(list)
    \/ LoadFails
    \/ OpenForm
    \/ \E entry \in FormEntries : FillForm(entry)
    \/ Submit
    \/ \E req \in inflight : CreateSucceeds(req)
    \/ \E req \in inflight : CreateFails(req)
    \/ \E id \in Ids(tasks), target \in Columns, k \in 0..Len(tasks) :
          Move(id, target, k)
    \/ \E id \in Ids(tasks) : Edit(id, TitleB)
    \/ \E id \in Ids(tasks) : Remove(id)
    \/ \E req \in inflight : Commit(req)
    \/ \E req \in inflight : Rollback(req)

BoardSpec == BoardInit /\ [][BoardNext]_vars

----------------------------------------------------------------------------
\* Properties of the board

\* Where task id is shown: the column and the place in it.
Occurrences(id) ==
    UNION {{<<c, j>> : j \in {j \in DOMAIN Column(tasks, c) : Column(tasks, c)[j].id = id}} :
              c \in Columns}

\* C11: every task the board holds is shown in exactly one column, once, and
\* that column is the one its status names; the columns show nothing else.
C11_OneColumnPerTask ==
    /\ \A i \in DOMAIN tasks : tasks[i].status \in Columns
    /\ \A i \in DOMAIN tasks :
          /\ Cardinality(Occurrences(tasks[i].id)) = 1
          /\ \A o \in Occurrences(tasks[i].id) : o[1] = tasks[i].status
    /\ \A c \in Columns : \A j \in DOMAIN Column(tasks, c) : Column(tasks, c)[j].id \in Ids(tasks)

\* A stale response was discarded after a move was rolled back, with two
\* tasks on the board.
C11_Witness ==
    /\ boardEvent.name = "stale"
    /\ boardEvent.req.kind = "move"
    /\ \E a \in answered : a.id = boardEvent.req.id /\ a.rev > boardEvent.req.rev /\ ~a.ok
    /\ Len(tasks) = 2

\* C12: when the persist call of a move to another column fails, the task is
\* back in its original column, as it was; and if nothing else touched the
\* board in between, at its original index, the whole board being the one of
\* before the drag.
C12_RollbackRestoresBoard ==
    (boardEvent.name = "rolled-back" /\ boardEvent.req.kind = "move") =>
        LET req == boardEvent.req
        IN  /\ req.id \in Ids(tasks)
            /\ TaskOf(tasks, req.id) = req.before
            /\ req.clean => /\ ColumnIndex(tasks, req.id) = req.index
                            /\ Board(tasks) = req.snapshot

\* The move of the first of two tasks of a column to another column failed.
C12_Witness ==
    /\ boardEvent.name = "rolled-back"
    /\ boardEvent.req.kind = "move"
    /\ boardEvent.req.clean
    /\ boardEvent.req.change.status # boardEvent.req.before.status
    /\ boardEvent.req.index = 0
    /\ Len(boardEvent.req.snapshot[boardEvent.req.before.status]) = 2

IsMove(call) == call.method = "PATCH" /\ "status" \in DOMAIN call.body

\* The calls that moved task id, as indexes of issued.
MovesOf(id) == {i \in DOMAIN issued : IsMove(issued[i]) /\ issued[i].id = id}

\* The revision the board gave to the i-th call it issued.
RevisionOf(i) ==
    Cardinality({j \in 1..i : issued[j].method \in {"PATCH", "DELETE"}
                               /\ issued[j].id = issued[i].id})

Latest(S) == CHOOSE i \in S : \A j \in S : j <= i

\* A response leaves the set of calls in flight and belongs to an earlier
\* revision of its task.
StaleResponse ==
    \E req \in inflight :
        /\ req.kind # "create"
        /\ inflight' = inflight \ {req}
        /\ req.rev # revision[req.id]

\* C13: a task whose last move was persisted is in the column of that move,
\* whatever the order in which the responses of its moves arrived; and a stale
\* response leaves the board as it is.
C13_LastMoveWins ==
    /\ [](\A id \in Ids(tasks) :
            MovesOf(id) # {} =>
                LET m == Latest(MovesOf(id))
                IN  [id |-> id, rev |-> RevisionOf(m), ok |-> TRUE] \in answered
                        => TaskOf(tasks, id).status = issued[m].body.status)
    /\ [][StaleResponse => tasks' = tasks]_vars

\* Two moves of one task to two columns; the second was persisted first, the
\* response of the first came after it.
C13_Witness ==
    /\ boardEvent.name = "stale"
    /\ boardEvent.req.kind = "move"
    /\ boardEvent.req.id \in Ids(tasks)
    /\ Cardinality(MovesOf(boardEvent.req.id)) = 2
    /\ \A a \in answered : a.id = boardEvent.req.id => a.ok
    /\ Cardinality({a \in answered : a.id = boardEvent.req.id}) = 2
    /\ TaskOf(tasks, boardEvent.req.id).status # boardEvent.req.change.status
    /\ TaskOf(tasks, boardEvent.req.id).status
           = issued[Latest(MovesOf(boardEvent.req.id))].body.status

\* The form is submitted in this step.
SubmitStep == form.open /\ boardEvent' # boardEvent
                        /\ boardEvent'.name \in {"submitted", "invalid-title"}

\* C14: submitting the form with a title that is empty or only whitespace
\* issues no call, leaves the board as it is and reports the invalid title.
C14_BlankTitleRejected ==
    [][(SubmitStep /\ Trim(form.title) = <<>>) =>
          /\ issued' = issued
          /\ inflight' = inflight
          /\ tasks' = tasks
          /\ boardEvent'.name = "invalid-title"]_vars

\* A title of one space was submitted to a board of two tasks.
C14_Witness ==
    /\ boardEvent.name = "invalid-title"
    /\ form.title = <<" ">>
    /\ Len(tasks) = 2
    /\ Len(issued) = 1

\* C15: a read-only board issues nothing but its load, never opens the form
\* and shows the tasks as they were loaded.
C15_ReadOnlyNeverMutates ==
    readOnly =>
        /\ \A i \in DOMAIN issued : issued[i].method = "GET"
        /\ inflight = {}
        /\ ~form.open
        /\ \A i \in DOMAIN tasks : tasks[i].synced
        /\ boardEvent.name \in {"none", "loaded", "load-failed"}

\* A read-only board has loaded two tasks.
C15_Witness == readOnly /\ phase = "ready" /\ Len(tasks) = 2

\* The last task of the column of that status
LastOf(c) == Column(tasks, c)[Len(Column(tasks, c))]

\* C16: submitting a title that is not blank issues one call, POST /tasks,
\* with the title and description as entered, the project id, the status
\* chosen or 'To Do', and the assignee only when one was chosen; when the call
\* succeeds the task the backend returns is the last of its status's column.
C16_CreateCall ==
    /\ [](boardEvent.name = "submitted" =>
            LET call == issued[Len(issued)]
            IN  /\ call.method = "POST" /\ call.path = "/tasks"
                /\ call.body.title = form.title
                /\ call.body.description = form.description
                /\ call.body.project_id = ProjectId
                /\ call.body.status = (IF form.status = "" THEN "To Do" ELSE form.status)
                /\ ("assignee_id" \in DOMAIN call.body) <=> (form.assignee # 0)
                /\ form.assignee # 0 => call.body.assignee_id = form.assignee)
    /\ [][(SubmitStep /\ Trim(form.title) # <<>>) =>
             /\ Len(issued') = Len(issued) + 1
             /\ boardEvent'.name = "submitted"]_vars
    /\ [](boardEvent.name = "created" =>
            /\ Column(tasks, boardEvent.req.body.status) # <<>>
            /\ LastOf(boardEvent.req.body.status)
                   = Task(nextId - 1, boardEvent.req.body.status,
                          boardEvent.req.body.title, TRUE))

\* A task with no status and no assignee chosen was created on a board that
\* had tasks to do.
C16_Witness ==
    /\ boardEvent.name = "created"
    /\ boardEvent.req.body.status = "To Do"
    /\ "assignee_id" \notin DOMAIN boardEvent.req.body
    /\ Len(Column(tasks, "To Do")) >= 2

----------------------------------------------------------------------------
\* More properties of the session

\* C23: a login answered with two_factor_enabled, and a login that throws,
\* leave the user state and the 'user' entry of localStorage as they were, the
\* first recording the pending verification; and a visitor without a user is
\* still sent to /login by every protected route.
C23_TwoFactorDoesNotAuthenticate ==
    /\ [][(authEvent' # authEvent /\ authEvent' = Event("login", "2fa")) =>
             /\ user' = user /\ storageUser' = storageUser /\ storageItem' = storageItem
             /\ pending2fa']_vars
    /\ [][(authEvent' # authEvent /\ authEvent' = Event("login", "throws")) =>
             /\ user' = user /\ storageUser' = storageUser /\ storageItem' = storageItem
             /\ pending2fa' = pending2fa]_vars
    /\ []((authEvent.name = "login" /\ authEvent.detail \in {"2fa", "throws"}
             /\ ~loading /\ user = Null) =>
            \A props \in RouteProps :
                ProtectedRoute(user, loading, props.requireAdmin, props.requireManager)
                    = "login")

\* After a logout, a login asked for the second factor and the route then
\* rendered sent the visitor to /login.
C23_Witness ==
    /\ authEvent = Event("login", "2fa")
    /\ pending2fa /\ user = Null /\ ~storageUser
    /\ HasRendered /\ rendered.user = Null /\ ~rendered.loading
    /\ rendered.output = "login" /\ location = "/login"

\* The mount effect runs in this step.
MountStep == authEvent = NoEvent /\ authEvent' # NoEvent

\* C24: the mount effect ends with loading false; a stored JSON value becomes
\* the user; no entry, or the text 'undefined', leaves the user null and the
\* storage as it is; a text that does not parse leaves the user null and is
\* removed.
C24_RestoreOnMount ==
    [][MountStep =>
          /\ loading' = FALSE
          /\ (storageUser /\ storageItem.kind = "json")
                => (user' = storageItem.value /\ storageUser')
          /\ (~storageUser \/ (storageItem.kind = "text"
                                  /\ storageItem.text \in {"", "undefined"}))
                => (user' = Null /\ storageUser' = storageUser)
          /\ (storageUser /\ storageItem.kind = "text"
                /\ storageItem.text \notin {"", "undefined"})
                => (user' = Null /\ ~storageUser')]_vars

\* The mount effect found text that is not JSON and removed it.
C24_Witness ==
    /\ authEvent = Event("mount", "")
    /\ storageItem = [kind |-> "text", text |-> "{bad"]
    /\ ~storageUser /\ user = Null /\ ~loading

\* C28: once loading is over, the user state is non-null exactly when
\* localStorage holds a 'user' entry.
C28_UserIffStored == ~loading => ((user # Null) <=> storageUser)

\* C29: a logged-in user is let into a manager-only route exactly when
\* DashboardRouter shows that user the manager dashboard and isManager() is
\* true.
C29_ManagerDecidedAlike ==
    (HasRendered /\ ManagerOnly(rendered.route) /\ ~rendered.loading
        /\ rendered.user.type = "object")
    => /\ rendered.output = "children"
            <=> DashboardRouter(rendered.user) = "ManagerDashboard"
       /\ rendered.output = "children" <=> IsManager(rendered.user)

----------------------------------------------------------------------------
\* The error boundary

\* What a child may throw, and the errorInfo React passes along with it.
Thrown ==
    [error : {[type |-> "object", message |-> "a"], [type |-> "object", message |-> "b"],
              Null, UndefinedValue},
     errorInfo : {[type |-> "object", componentStack |-> at] : at \in {"Board", "Form", "App"}}]

\* A getDerivedStateFromError that does not raise the flag.
GetDerivedStateUnflagged == [hasError |-> FALSE]

\* static getDerivedStateFromError()
GetDerivedStateFromError == [hasError |-> TRUE]

\* render(): the children, the fallback, or the fallback with the details
\* view, which reads error.toString() and errorInfo.componentStack.
RenderBoundary(state, dev) ==
    IF state.hasError
    THEN IF dev /\ Truthy(state.error)
         THEN IF state.errorInfo.type = "object" THEN "details" ELSE "TypeError"
         ELSE "fallback"
    ELSE "children"

\* The boundary is constructed and has rendered its children.
BoundaryInit ==
    /\ ApiAtRest /\ storageUser = TRUE /\ location = "/dashboard"
    /\ AuthAtRest /\ BoardAtRest
    /\ Dormant(FALSE, TRUE, TRUE)
    /\ ebState = InitialState
    /\ ebCaught = Null
    /\ ebDev \in BOOLEAN
    /\ ebView = RenderBoundary(InitialState, ebDev)
    /\ ebReports = 0

\* A child throws while rendering: React merges what getDerivedStateFromError
\* returns and renders the boundary again.
ChildThrows(thrown) ==
    /\ ebView = "children" /\ ebCaught = Null /\ ebReports < MaxReports
    /\ ebState' = Spread(ebState, GetDerivedStateFromError)
    /\ ebCaught' = [type |-> "thrown", thrown |-> thrown]
    /\ ebView' = RenderBoundary(ebState', ebDev)
    /\ UNCHANGED <<ebDev, ebReports>>
    /\ UNCHANGED <<apiVars, browserVars, authVars, boardVars, workerVars, deployVars>>

\* componentDidCatch(error, errorInfo), in the commit that follows.
ComponentDidCatch ==
    /\ ebCaught # Null
    /\ ebState' = Spread(ebState, ebCaught.thrown)
    /\ ebCaught' = Null
    /\ ebReports' = ebReports + 1
    /\ ebView' = RenderBoundary(ebState', ebDev)
    /\ UNCHANGED ebDev
    /\ UNCHANGED <<apiVars, browserVars, authVars, boardVars, workerVars, deployVars>>

\* handleRetry, the click on Try Again.
HandleRetry ==
    /\ ebView \in {"fallback", "details"} /\ ebCaught = Null
    /\ ebState' = Spread(ebState, InitialState)
    /\ ebView' = RenderBoundary(ebState', ebDev)
    /\ UNCHANGED <<ebCaught, ebDev, ebReports>>
    /\ UNCHANGED <<apiVars, browserVars, authVars, boardVars, workerVars, deployVars>>

\* The click on Go Home, the other button of the fallback.
GoHome ==
    /\ ebView \in {"fallback", "details"} /\ ebCaught = Null
    /\ location' = "/"
    /\ UNCHANGED <<storageUser, boundaryVars>>
    /\ UNCHANGED <<apiVars, authVars, boardVars, workerVars, deployVars>>

BoundaryNext ==
    \/ \E thrown \in Thrown : ChildThrows(thrown)
    \/ ComponentDidCatch
    \/ HandleRetry
    \/ GoHome

BoundarySpec == BoundaryInit /\ [][BoundaryNext]_vars

\* C27: a non-null error in the state comes with hasError and a non-null
\* errorInfo, so the details view never reads a null errorInfo; the children
\* are what render returns exactly when hasError is false; and the retry
\* puts the state back to the constructor's.
C27_BoundaryState ==
    /\ [](/\ ebState.error \notin {Null, UndefinedValue}
                => (ebState.hasError /\ ebState.errorInfo # Null)
          /\ ebView # "TypeError"
          /\ (ebView = "children") <=> ~ebState.hasError)
    /\ [][(ebView \in {"fallback", "details"} /\ ebView' = "children")
             => ebState' = InitialState]_vars

\* After a retry a second error was caught and its details are shown.
C27_Witness ==
    /\ ebState.hasError /\ ebState.error = [type |-> "object", message |-> "b"]
    /\ ebState.errorInfo.type = "object"
    /\ ebView = "details" /\ ebReports = 2

----------------------------------------------------------------------------
\* The service worker.  A URL is the sequence of its characters, so that
\* startsWith and includes are computed on it.

\* self.location.origin
Origin == <<"h","t","t","p","s",":","/","/","a","p","p",".","e","x","a","m","p","l","e">>

\* STATIC_ASSETS, resolved against the worker's location
StaticAssets ==
    {Origin \o path : path \in {<<"/">>, <<"/","i","n","d","e","x",".","h","t","m","l">>,
                                <<"/","m","a","n","i","f","e","s","t",".","j","s","o","n">>}}

\* The requests the pages of the app make: its documents and assets, the
\* backend's endpoints under the app's own origin (served by a proxy or by
\* the same host), under the same host at another port and under a host of
\* its own, and a script of another site whose name begins like the app's.
Requests ==
    {[method |-> "GET", url |-> Origin \o path] :
        path \in {<<"/">>, <<"/","i","n","d","e","x",".","h","t","m","l">>,
                  <<"/","a","s","s","e","t","s","/","a","p","p",".","j","s">>,
                  <<"/","a","p","i","/","h","e","a","l","t","h">>,
                  <<"/","t","a","s","k","s">>,
                  <<"/","p","r","o","j","e","c","t","s","/","1","/","t","a","s","k","s">>}}
    \cup {[method |-> "POST", url |-> Origin \o path] :
             path \in {<<"/","a","u","t","h","/","l","o","g","i","n">>,
                       <<"/","t","a","s","k","s">>}}
    \cup {[method |-> "GET", url |-> url] :
             url \in {<<"h","t","t","p","s",":","/","/","a","p","i",".","e","x","a","m","p","l","e","/","t","a","s","k","s">>,
                      <<"h","t","t","p","s",":","/","/","a","p","p",".","e","x","a","m","p","l","e",":","8","4","4","3","/","t","a","s","k","s">>,
                      <<"h","t","t","p","s",":","/","/","a","p","p",".","e","x","a","m","p","l","e",".","e","v","i","l",".","c","o","m","/","x",".","j","s">>}}

\* The fetch handler goes on to respondWith: the text of the URL starts with
\* the worker's origin and holds neither '/api/' nor '/auth/'.
Handles(request) ==
    /\ StartsWith(request.url, Origin)
    /\ ~(Includes(request.url, <<"/","a","p","i","/">>)
            \/ Includes(request.url, <<"/","a","u","t","h","/">>))

\* caches.match(request): the entries that answer the request, those of the
\* static cache, which was opened first, before those of the dynamic cache.
\* Only a GET request matches.
Match(request, cache) ==
    LET found == {e \in cache : request.method = "GET" /\ e.url = request.url}
    IN  IF \E e \in found : e.cache = "static"
        THEN {e \in found : e.cache = "static"}
        ELSE found

\* `if (!response.ok) return response` is passed: the handler goes on to put
\* a clone of the response into the dynamic cache.
Caches(request, response) == Ok(response)

\* cache.put stores the response: it rejects a request that is not a GET and
\* a response of status 206.
PutStores(request, response) == request.method = "GET" /\ response.status # 206

\* The worker is installed and active; cache.addAll has stored the static
\* assets, all of them, or has failed and the failure was logged.
WorkerInit ==
    /\ ApiAtRest /\ storageUser = TRUE /\ location = "/dashboard"
    /\ AuthAtRest /\ BoardAtRest
    /\ Dormant(TRUE, FALSE, TRUE)
    /\ swCache \in {{}, {[cache |-> "static", url |-> url, status |-> 200] :
                            url \in StaticAssets}}
    /\ swHandlers = {}
    /\ swLast = [kind |-> "none"]
    /\ swEvents = 0

\* A fetch event: the handler returns at once, or calls respondWith with the
\* promise of caches.match and returns.
FetchEvent(request) ==
    /\ swEvents < MaxEvents
    /\ swEvents' = swEvents + 1
    /\ IF ~Handles(request)
       THEN /\ swLast' = [kind |-> "default", n |-> swEvents', request |-> request]
            /\ UNCHANGED swHandlers
       ELSE /\ swHandlers' = swHandlers \cup
                   {[n |-> swEvents', request |-> request, stage |-> "matching",
                     status |-> 0]}
            /\ swLast' = [kind |-> "undecided", n |-> swEvents', request |-> request]
    /\ UNCHANGED swCache
    /\ UNCHANGED <<apiVars, browserVars, authVars, boardVars, boundaryVars, deployVars>>

\* caches.match of a handler settles: the entry found is the answer, or
\* fetch(event.request) is called.
MatchSettles(h) ==
    /\ h \in swHandlers /\ h.stage = "matching"
    /\ IF Match(h.request, swCache) # {}
       THEN /\ \E e \in Match(h.request, swCache) :
                   swLast' = [kind |-> "cache", n |-> h.n, request |-> h.request,
                              status |-> e.status]
            /\ swHandlers' = swHandlers \ {h}
       ELSE /\ swHandlers' = (swHandlers \ {h}) \cup {[h EXCEPT !.stage = "fetching"]}
            /\ swLast' = [kind |-> "fetching", n |-> h.n, request |-> h.request]
    /\ UNCHANGED <<swCache, swEvents>>
    /\ UNCHANGED <<apiVars, browserVars, authVars, boardVars, boundaryVars, deployVars>>

\* The network fetch of a handler settles: a rejection is thrown on, a
\* response is returned, and for an ok response caches.open is called, whose
\* callback will put the clone.
NetworkSettles(h, result) ==
    /\ h \in swHandlers /\ h.stage = "fetching"
    /\ IF result.kind = "rejects"
       THEN /\ swLast' = [kind |-> "error", n |-> h.n, request |-> h.request]
            /\ swHandlers' = swHandlers \ {h}
       ELSE /\ swLast' = [kind |-> "network", n |-> h.n, request |-> h.request,
                          status |-> result.status]
            /\ swHandlers' =
                  IF Caches(h.request, result)
                  THEN (swHandlers \ {h}) \cup
                          {[h EXCEPT !.stage = "putting", !.status = result.status]}
                  ELSE swHandlers \ {h}
    /\ UNCHANGED <<swCache, swEvents>>
    /\ UNCHANGED <<apiVars, browserVars, authVars, boardVars, boundaryVars, deployVars>>

\* caches.open(DYNAMIC_CACHE) settles and cache.put runs: the entry replaces
\* the one the dynamic cache held for the URL, or the put rejects and nobody
\* hears of it.
PutSettles(h) ==
    /\ h \in swHandlers /\ h.stage = "putting"
    /\ swHandlers' = swHandlers \ {h}
    /\ swCache' =
          IF PutStores(h.request, h)
          THEN {e \in swCache : ~(e.cache = "dynamic" /\ e.url = h.request.url)}
                  \cup {[cache |-> "dynamic", url |-> h.request.url, status |-> h.status]}
          ELSE swCache
    /\ UNCHANGED <<swLast, swEvents>>
    /\ UNCHANGED <<apiVars, browserVars, authVars, boardVars, boundaryVars, deployVars>>

WorkerNext ==
    \/ \E request \in Requests : FetchEvent(request)
    \/ \E h \in swHandlers : MatchSettles(h)
    \/ \E h \in swHandlers, result \in {[kind |-> "rejects"]}
                \cup {[kind |-> "response", status |-> st] : st \in {200, 206, 404, 500}} :
          NetworkSettles(h, result)
    \/ \E h \in swHandlers : PutSettles(h)

WorkerSpec == WorkerInit /\ [][WorkerNext]_vars

\* The origin of a URL, scheme, host and port, and its path.
PathStart(url) ==
    CHOOSE i \in 9..(Len(url) + 1) :
        /\ i = Len(url) + 1 \/ url[i] = "/"
        /\ \A j \in 9..(i - 1) : url[j] # "/"

OriginOf(url) == SubSeq(url, 1, PathStart(url) - 1)

PathOf(url) == SubSeq(url, PathStart(url), Len(url))

\* The first segment of a path of the backend: the prefixes the development
\* proxy forwards.
BackendPrefixes ==
    {<<"a","u","t","h">>, <<"p","r","o","j","e","c","t","s">>,
     <<"u","s","e","r","s">>, <<"t","a","s","k","s">>, <<"a","p","i">>,
     <<"m","e","m","b","e","r","s">>, <<"c","l","a","s","s","e","s">>,
     <<"c","o","h","o","r","t","s">>,
     <<"i","n","v","i","t","a","t","i","o","n","s">>}

\* The URL names an endpoint of the backend, under whatever origin.
IsBackend(url) ==
    \E prefix \in BackendPrefixes :
        LET path == PathOf(url)
            n == Len(prefix) + 1
        IN  /\ StartsWith(path, <<"/">> \o prefix)
            /\ Len(path) = n \/ path[n + 1] = "/"

\* C22: no entry of a cache is the response of a backend endpoint, and no
\* request to a backend endpoint is answered from a cache.
C22_BackendNeverCached ==
    /\ \A e \in swCache : ~IsBackend(e.url)
    /\ swLast.kind = "cache" => ~IsBackend(swLast.request.url)

\* C25: every entry of the dynamic cache is an ok response to a request of
\* the worker's origin; the network is asked only for a request no cache
\* entry matches; and an event answered from a cache has started no fetch and
\* leaves the caches as they are.
C25_OnlySuccessesCached ==
    /\ [](\A e \in swCache :
            e.cache = "dynamic" => (Ok(e) /\ OriginOf(e.url) = Origin))
    /\ [][\A h \in swHandlers' \ swHandlers :
             h.stage = "fetching" => Match(h.request, swCache) = {}]_vars
    /\ [][(swLast' # swLast /\ swLast'.kind = "cache") =>
             /\ swCache' = swCache
             /\ \A h \in swHandlers' \ swHandlers : FALSE
             /\ \E e \in swCache : e.url = swLast'.request.url
                                   /\ e.status = swLast'.status]_vars

----------------------------------------------------------------------------
\* The deploy script.  It runs under `set -e`: a command that fails outside
\* an `if` ends the script with the status of that command.

\* No run yet; the files are as the developer left them.
DeployInit ==
    /\ ApiAtRest /\ storageUser = TRUE /\ location = "/dashboard"
    /\ AuthAtRest /\ BoardAtRest
    /\ Dormant(TRUE, TRUE, FALSE)
    /\ dpPc = "none"
    /\ dpLog = <<>>
    /\ dpExit = <<>>
    /\ dpEnv \in BOOLEAN
    /\ dpExample \in BOOLEAN
    /\ dpType = "none"
    /\ dpRuns = 0

\* main "$@" with at most one argument: the argument loop.
Invoke(args) ==
    /\ dpPc \in {"none", "exited"} /\ dpRuns < MaxRuns
    /\ dpRuns' = dpRuns + 1
    /\ dpLog' = <<>>
    /\ dpType' = IF args # <<>> /\ args[1] \in {"--prod", "--production"}
                 THEN "production" ELSE "preview"
    /\ IF args = <<>> \/ args[1] \in {"--prod", "--production"}
       THEN dpPc' = "deps" /\ dpExit' = <<>>
       ELSE /\ dpPc' = "exited"
            /\ dpExit' = IF args[1] \in {"--help", "-h"} THEN <<0>> ELSE <<1>>
    /\ UNCHANGED <<dpEnv, dpExample>>
    /\ UNCHANGED <<apiVars, browserVars, authVars, boardVars, boundaryVars, workerVars>>

\* check_dependencies: node, npm and git are all installed, or not.
CheckDependencies(installed) ==
    /\ dpPc = "deps"
    /\ dpLog' = Append(dpLog, [step |-> "deps", ok |-> installed])
    /\ IF installed
       THEN dpPc' = "env" /\ UNCHANGED dpExit
       ELSE dpPc' = "exited" /\ dpExit' = <<1>>
    /\ UNCHANGED <<dpEnv, dpExample, dpType, dpRuns>>
    /\ UNCHANGED <<apiVars, browserVars, authVars, boardVars, boundaryVars, workerVars>>

\* A setup that goes on once it has created .env from the template.
SetupEnvVarsGoesOn(copies) ==
    /\ dpPc = "env"
    /\ dpLog' = Append(dpLog, [step |-> "env", ok |-> dpEnv])
    /\ dpEnv' = (dpEnv \/ (dpExample /\ copies))
    /\ IF dpEnv'
       THEN dpPc' = "lint" /\ UNCHANGED dpExit
       ELSE dpPc' = "exited" /\ dpExit' = <<1>>
    /\ UNCHANGED <<dpExample, dpType, dpRuns>>
    /\ UNCHANGED <<apiVars, browserVars, authVars, boardVars, boundaryVars, workerVars>>

\* setup_env_vars; copies: the cp of the template succeeds (a cp that fails
\* ends the script with its status, 1).
SetupEnvVars(copies) ==
    /\ dpPc = "env"
    /\ dpLog' = Append(dpLog, [step |-> "env", ok |-> dpEnv])
    /\ IF dpEnv
       THEN dpPc' = "lint" /\ UNCHANGED <<dpExit, dpEnv>>
       ELSE /\ dpPc' = "exited"
            /\ dpExit' = <<1>>
            /\ dpEnv' = (dpExample /\ copies)
    /\ UNCHANGED <<dpExample, dpType, dpRuns>>
    /\ UNCHANGED <<apiVars, browserVars, authVars, boardVars, boundaryVars, workerVars>>

\* run_lint: a failure is a warning.
RunLint(ok) ==
    /\ dpPc = "lint"
    /\ dpLog' = Append(dpLog, [step |-> "lint", ok |-> ok])
    /\ dpPc' = "tests"
    /\ UNCHANGED <<dpExit, dpEnv, dpExample, dpType, dpRuns>>
    /\ UNCHANGED <<apiVars, browserVars, authVars, boardVars, boundaryVars, workerVars>>

\* A test step that warns like the lint step.
RunTestsWarnsOnly(ok) ==
    /\ dpPc = "tests"
    /\ dpLog' = Append(dpLog, [step |-> "tests", ok |-> ok])
    /\ dpPc' = "build"
    /\ UNCHANGED <<dpExit, dpEnv, dpExample, dpType, dpRuns>>
    /\ UNCHANGED <<apiVars, browserVars, authVars, boardVars, boundaryVars, workerVars>>

\* run_tests
RunTests(ok) ==
    /\ dpPc = "tests"
    /\ dpLog' = Append(dpLog, [step |-> "tests", ok |-> ok])
    /\ IF ok
       THEN dpPc' = "build" /\ UNCHANGED dpExit
       ELSE dpPc' = "exited" /\ dpExit' = <<1>>
    /\ UNCHANGED <<dpEnv, dpExample, dpType, dpRuns>>
    /\ UNCHANGED <<apiVars, browserVars, authVars, boardVars, boundaryVars, workerVars>>

\* build_app
BuildApp(ok) ==
    /\ dpPc = "build"
    /\ dpLog' = Append(dpLog, [step |-> "build", ok |-> ok])
    /\ IF ok
       THEN dpPc' = "deploy" /\ UNCHANGED dpExit
       ELSE dpPc' = "exited" /\ dpExit' = <<1>>
    /\ UNCHANGED <<dpEnv, dpExample, dpType, dpRuns>>
    /\ UNCHANGED <<apiVars, browserVars, authVars, boardVars, boundaryVars, workerVars>>

\* deploy_to_vercel and the end of main; status: that of `npm install -g
\* vercel` when the CLI is missing and cannot be installed, else that of
\* `vercel` or `vercel --prod`.
DeployToVercel(status) ==
    /\ dpPc = "deploy"
    /\ dpLog' = Append(dpLog, [step |-> "deploy", ok |-> status = 0])
    /\ dpPc' = "exited"
    /\ dpExit' = <<status>>
    /\ UNCHANGED <<dpEnv, dpExample, dpType, dpRuns>>
    /\ UNCHANGED <<apiVars, browserVars, authVars, boardVars, boundaryVars, workerVars>>

DeployNext ==
    \/ \E args \in {<<>>, <<"--prod">>, <<"--production">>, <<"--help">>, <<"-h">>,
                    <<"--fast">>} : Invoke(args)
    \/ \E installed \in BOOLEAN : CheckDependencies(installed)
    \/ \E copies \in BOOLEAN : SetupEnvVars(copies)
    \/ \E ok \in BOOLEAN : RunLint(ok)
    \/ \E ok \in BOOLEAN : RunTests(ok)
    \/ \E ok \in BOOLEAN : BuildApp(ok)
    \/ \E status \in 0..1 : DeployToVercel(status)

DeploySpec == DeployInit /\ [][DeployNext]_vars

\* The names of the steps run so far
StepsRun == [i \in DOMAIN dpLog |-> dpLog[i].step]

StepOrder == <<"deps", "env", "lint", "tests", "build", "deploy">>

Failed(step) == \E i \in DOMAIN dpLog : dpLog[i].step = step /\ ~dpLog[i].ok

Passed(step) == \E i \in DOMAIN dpLog : dpLog[i].step = step /\ dpLog[i].ok

\* C21: the steps of a run are, in this order, the dependency check, the env
\* check, lint, tests, build and deployment; the deployment is reached only
\* after tests that passed and a build that succeeded; failed tests or a
\* failed build end the run with status 1.
C21_DeployAfterTestsAndBuild ==
    /\ Len(dpLog) <= Len(StepOrder)
    /\ StepsRun = SubSeq(StepOrder, 1, Len(dpLog))
    /\ (dpPc = "deploy" \/ Passed("deploy") \/ Failed("deploy"))
          => (Passed("tests") /\ Passed("build"))
    /\ (Failed("tests") \/ Failed("build"))
          => (dpPc = "exited" /\ dpExit = <<1>> /\ dpLog[Len(dpLog)].step # "deploy")

\* A run whose lint failed was deployed to production.
C21_Witness ==
    /\ Failed("lint") /\ Passed("tests") /\ Passed("build") /\ Passed("deploy")
    /\ dpPc = "exited" /\ dpExit = <<0>> /\ dpType = "production"

\* C26: the env check of a run that finds no .env ends the run with status
\* 1, nothing but the dependency check and itself having run, whether or not
\* it could create .env from env.example.
C26_NoEnvStopsRun ==
    [][(dpPc = "env" /\ ~dpEnv /\ dpPc' # dpPc) =>
          /\ dpPc' = "exited" /\ dpExit' = <<1>>
          /\ StepsRun' = <<"deps", "env">>
          /\ dpEnv' => dpExample]_vars

\* A run has just created .env from env.example and stopped.
C26_Witness ==
    /\ dpPc = "exited" /\ dpExit = <<1>>
    /\ Failed("env") /\ dpEnv /\ dpExample
    /\ Len(dpLog) = 2

====
